---- MODULE Spec2Model ----
(***************************************************************************)
(* Model of volume-logger.py: the LED processor logger.                    *)
(*                                                                         *)
(* A JSON value is a tagged record: [scalar |-> n], [list |-> <<...>>] or  *)
(* [map |-> f] with f a function from keys to JSON values.  A string (a    *)
(* dictionary key, a dotted path) is a sequence of tokens: a token is "."  *)
(* or one of the literal fragments the VETO patterns are made of, or a     *)
(* word that contains none of them.  Python's dict iteration order and the *)
(* iteration order of set(b) - set(a) are not modelled: the list returned  *)
(* by dict_compare is kept as a bag of paths.                              *)
(***************************************************************************)
EXTENDS Bags, FiniteSets, Integers, Sequences, TLC

\* ------------------------------------------------------------------ bounds
\* Largest number of keys, over all nesting levels, of a generated snapshot.
MaxKeys == 3
\* Number of sample() calls after which the clock of the model stops.
MaxTime == 5
MaxHostLen == 3

\* Dictionary keys of the generated snapshots (token sequences).
Keys == {<<"sys">>, <<"uptime">>}
\* Scalar values and list values of the generated snapshots.
Scalars == {1, 2}
Lists == {<<>>, <<1>>}

\* ------------------------------------------------------------- JSON values
Scalar(n) == [scalar |-> n]
List(l) == [list |-> l]
Map(f) == [map |-> f]
IsScalar(v) == DOMAIN v = {"scalar"}
IsList(v) == DOMAIN v = {"list"}
IsMap(v) == DOMAIN v = {"map"}
EmptyMap == Map(<<>>)

Range(s) == {s[i] : i \in 1..Len(s)}

RECURSIVE Size(_)
RECURSIVE SizeOver(_, _)
\* Number of keys of a value, over all nesting levels.
Size(v) == IF IsMap(v) THEN SizeOver(v.map, DOMAIN v.map) ELSE 0
SizeOver(f, ks) ==
    IF ks = {} THEN 0
    ELSE LET k == CHOOSE x \in ks : TRUE
         IN 1 + Size(f[k]) + SizeOver(f, ks \ {k})

Leaves == {Scalar(n) : n \in Scalars} \cup {List(l) : l \in Lists}

RECURSIVE Values(_)
RECURSIVE MapsOver(_, _)
\* The JSON values with at most n keys; the functions over a subset of ks
\* whose keys and values together hold at most n keys.
Values(n) == Leaves \cup {Map(f) : f \in MapsOver(Keys, n)}
MapsOver(ks, n) ==
    IF ks = {} \/ n = 0 THEN {<<>>}
    ELSE LET k == CHOOSE x \in ks : TRUE
             rest == ks \ {k}
         IN MapsOver(rest, n) \cup
            UNION {{(k :> v) @@ f : f \in MapsOver(rest, n - 1 - Size(v))} :
                   v \in Values(n - 1)}

\* The payload root is a JSON object.
Snapshots == {Map(f) : f \in MapsOver(Keys, MaxKeys)}

\* ------------------------------------------------------------------ VETO
Digit == {"0", "1", "2", "3", "4", "5", "6", "7", "8", "9"}
Volatile == {"reboots", "discovered", "since", "uptime", "runtime", "freq",
             "CPUTemp", "outputFreq", "current-date-time"}
Channel == {"volts", "currents", "counters", "temps", "fans"}

\* s ends with "." lead, one or more digits, then one of the tokens in tails.
DotLeadDigitsTail(s, lead, tails) ==
    \E i \in 1..Len(s) :
        /\ s[i] = "."
        /\ i + 3 <= Len(s)
        /\ s[i + 1] = lead
        /\ \A j \in (i + 2)..(Len(s) - 1) : s[j] \in Digit
        /\ s[Len(s)] \in tails

\* re.match of the r-th pattern of VETO against the string s.
VetoMatch(r, s) ==
    CASE r = 1 -> Len(s) >= 2 /\ s[Len(s) - 1] = "_" /\ s[Len(s)] = "I"
      [] r = 2 -> Len(s) >= 2 /\ s[Len(s) - 1] = "." /\ s[Len(s)] \in Volatile
      [] r = 3 -> \E i \in 1..(Len(s) - 1) : s[i] = "." /\ s[i + 1] = "stringId"
      [] r = 4 -> DotLeadDigitsTail(s, "FanCtrl(", {")"})
      [] r = 5 -> DotLeadDigitsTail(s, "SFP #", {" Tx", " Rx"})
      [] r = 6 -> \E i \in 1..Len(s) :
                      /\ s[i] = "."
                      /\ i + 3 <= Len(s)
                      /\ s[i + 1] \in Channel
                      /\ s[i + 2] = "."
                      /\ \A j \in (i + 3)..Len(s) : s[j] # "."
      [] r = 7 -> DotLeadDigitsTail(s, "SFP #", {" Temp"})
      [] r = 8 -> Len(s) >= 1 /\ s[1] = "_"

VetoAllMatch(path_str) == \A r \in 1..8 : VetoMatch(r, path_str)
\* any([_.match(path_str) for _ in VETO])
Veto(path_str) == \E r \in 1..8 : VetoMatch(r, path_str)

\* ---------------------------------------------------------- dict_compare
RECURSIVE Join(_)
\* '.'.join(working_path)
Join(working_path) ==
    IF working_path = <<>> THEN <<>>
    ELSE IF Len(working_path) = 1 THEN working_path[1]
    ELSE working_path[1] \o <<".">> \o Join(Tail(working_path))

\* An exception leaves dict_compare without a result.
Raise == [raised |-> TRUE, changes |-> EmptyBag]
Return(bag) == [raised |-> FALSE, changes |-> bag]

\* set(x) of a list of numbers or of a dict (its keys); a number is not iterable.
Iterable(x) == IsList(x) \/ IsMap(x)
SetOf(x) ==
    IF IsList(x) THEN [nums |-> Range(x.list), keys |-> {}]
    ELSE [nums |-> {}, keys |-> DOMAIN x.map]
SetDiff(s, t) == [nums |-> s.nums \ t.nums, keys |-> s.keys \ t.keys]
SetLen(s) == Cardinality(s.nums) + Cardinality(s.keys)

\* The condition of line 133, which guards the append of line 134.
ListChanged(v, w) ==
    \/ SetLen(SetDiff(SetOf(v), SetOf(w))) # 0
    \/ SetLen(SetDiff(SetOf(w), SetOf(v))) = 0

\* v != b[k] for a scalar v.
ScalarChanged(v, w) == ~(IsScalar(w) /\ v.scalar = w.scalar)

RECURSIVE SumBags(_, _)
SumBags(f, ks) ==
    IF ks = {} THEN EmptyBag
    ELSE LET k == CHOOSE x \in ks : TRUE
         IN f[k] (+) SumBags(f, ks \ {k})

RECURSIVE dict_compare(_, _, _)
dict_compare(a, b, path) ==
    IF ~IsMap(a) \/ ~IsMap(b)
    THEN Raise  \* a.items(), `k not in b` or b.keys() fails on a non-dict
    ELSE
      LET visit(k) ==
            LET v == a.map[k]
                working_path == Append(path, k)
                path_str == Join(working_path)
            IN IF k \notin DOMAIN b.map THEN Return(SetToBag({path_str}))
               ELSE IF IsMap(v) THEN dict_compare(v, b.map[k], working_path)
               ELSE IF Veto(path_str) THEN Return(EmptyBag)
               ELSE IF IsList(v) THEN
                      IF ~Iterable(b.map[k]) THEN Raise  \* set(b[k])
                      ELSE IF ListChanged(v, b.map[k])
                      THEN Raise  \* working_path.join: no such attribute
                      ELSE Return(EmptyBag)
               ELSE IF ScalarChanged(v, b.map[k])
                    THEN Return(SetToBag({path_str}))
                    ELSE Return(EmptyBag)
          visited == [k \in DOMAIN a.map |-> visit(k)]
          added == [k \in (DOMAIN b.map \ DOMAIN a.map) |->
                       SetToBag({Join(Append(path, k))})]
      IN IF \E k \in DOMAIN a.map : visited[k].raised
         THEN Raise
         ELSE Return(SumBags([k \in DOMAIN a.map |-> visited[k].changes],
                             DOMAIN a.map)
                     (+) SumBags(added, DOMAIN added))

\* ------------------------------------------------------------- get_value
RECURSIVE Split(_)
\* address.split('.')
Split(address) ==
    IF \A i \in 1..Len(address) : address[i] # "." THEN <<address>>
    ELSE LET i == CHOOSE j \in 1..Len(address) :
                      address[j] = "." /\ \A h \in 1..(j - 1) : address[h] # "."
         IN <<SubSeq(address, 1, i - 1)>>
            \o Split(SubSeq(address, i + 1, Len(address)))

None == [none |-> TRUE]

RECURSIVE Walk(_, _)
\* The loop of get_value over the parts of the address.
Walk(cursor, parts) ==
    IF parts = <<>> THEN [raised |-> FALSE, value |-> cursor]
    ELSE IF ~IsMap(cursor)
    THEN [raised |-> TRUE, value |-> None]  \* TypeError: not caught
    ELSE IF Head(parts) \notin DOMAIN cursor.map
    THEN [raised |-> FALSE, value |-> None]  \* KeyError: warning, return
    ELSE Walk(cursor.map[Head(parts)], Tail(parts))

get_value(cursor, address) == Walk(cursor, Split(address))

\* ------------------------------------------------------------------ state
VARIABLES
    pc,         \* main: "init", "sample", "compare", "sleep", or how it ended
    idx,        \* main: position in args.hosts, then in processors
    processors, \* main: the Processor objects, each with its history `data`
    now,        \* time.time(), counted in calls of sample()
    res,        \* the response to the latest HTTP request
    sampled,    \* per processor, every (timestamp, snapshot) a poll delivered
    probed,     \* the answers of the host under construction to both probes
    requested,  \* every HTTP request issued so far
    output,     \* the change log (logger OUTPUT)
    data_a,     \* compare / dict_compare: the older snapshot
    data_b,     \* compare / dict_compare: the newer snapshot
    changes     \* the latest call of dict_compare: [called, raised, changes]

vars == <<pc, idx, processors, now, res, sampled, probed, requested, output,
          data_a, data_b, changes>>

NotCalled == [called |-> FALSE, raised |-> FALSE, changes |-> EmptyBag]
Called(r) == [called |-> TRUE, raised |-> r.raised, changes |-> r.changes]

\* --------------------------------------------------------------- the hosts
\* args.hosts, each a sequence of characters.
Hosts == <<<<"1", "0", ".", "1", "9">>, <<"l", "e", "d">>>>
StatusCodes == {200, 304, 404}
NotJson == [notjson |-> TRUE]
\* The JSON documents a processor answers a poll with.
Payloads ==
    {Map(<<"sys">> :> Scalar(1)),
     Map(<<"sys">> :> Scalar(2)),
     Map(<<"sys">> :> List(<<1>>)),
     Map((<<"sys">> :> Map(<<"sys">> :> Scalar(1)))
         @@ (<<"sys", ".", "sys">> :> Scalar(1)))}

NoResponse == [op |-> "none", err |-> FALSE, status |-> 0, body |-> NotJson]
\* requests.get raised ConnectionError.
ConnectionError(op) == [op |-> op, err |-> TRUE, status |-> 0, body |-> NotJson]
Response(op, status, body) ==
    [op |-> op, err |-> FALSE, status |-> status, body |-> body]
ProbeResponses(op) ==
    {ConnectionError(op)} \cup {Response(op, s, NotJson) : s \in StatusCodes}
SampleResponses ==
    {ConnectionError("sample")}
    \cup {Response("sample", s, NotJson) : s \in StatusCodes}
    \cup {Response("sample", s, body) :
            s \in {c \in StatusCodes : c \in 200..299}, body \in Payloads}

max_samples == 3

StatusOkBelow400(status) == 199 < status /\ status < 400
\* 199 < res.status_code < 300
StatusOk(status) == 199 < status /\ status < 300
\* res.raise_for_status() raises HTTPError
RaisesForStatus(status) == 400 <= status /\ status < 600

Min(x, y) == IF x < y THEN x ELSE y
\* s[-n:] for n > 0
LastN(s, n) == SubSeq(s, Len(s) - Min(n, Len(s)) + 1, Len(s))

TruncateNothing(data) == data
TruncateKeepsOldest(data) == SubSeq(data, 1, Min(max_samples, Len(data)))
\* self.data[-self.max_samples:]
Truncate(data) == LastN(data, max_samples)

TooFewOnlyWhenEmpty(samples) == Len(samples) = 0
\* len(samples) != 2
TooFew(samples) == Len(samples) # 2

\* MEGAPIXEL_URL % host, BROMPTON_URL % host
MEGAPIXEL_URL(host) == <<"http://">> \o host \o <<"/api/v1/data">>
BROMPTON_URL(host) == <<"http://">> \o host \o <<"/api/">>
\* requests.get(url) and requests.get(url, params={'sys.info.serial': ''})
Request(url, params) == [url |-> url, params |-> params]
MegapixelProbe(host) == Request(MEGAPIXEL_URL(host), TRUE)
BromptonProbe(host) ==
    Request(BROMPTON_URL(host) \o <<"system/processor-type">>, FALSE)

NeedsBromptonAbove200(resA) == ~(200 < resA.status /\ resA.status < 300)
\* not 199 < res.status_code < 300
NeedsBrompton(resA) == ~StatusOk(resA.status)

DigitValue == ("0" :> 0) @@ ("1" :> 1) @@ ("2" :> 2) @@ ("3" :> 3) @@ ("4" :> 4)
              @@ ("5" :> 5) @@ ("6" :> 6) @@ ("7" :> 7) @@ ("8" :> 8) @@ ("9" :> 9)
DigitChar == <<"1", "2", "3", "4", "5", "6", "7", "8", "9">>
\* str.isdigit(), of ASCII characters
IsDigit(s) == s # <<>> /\ \A i \in 1..Len(s) : s[i] \in Digit

RECURSIVE IntOf(_)
\* int(s) of a string of digits
IntOf(s) ==
    IF s = <<>> THEN 0
    ELSE 10 * IntOf(SubSeq(s, 1, Len(s) - 1)) + DigitValue[s[Len(s)]]

RECURSIVE Str(_)
\* str(n) of a natural number
Str(n) ==
    LET last == IF n % 10 = 0 THEN "0" ELSE DigitChar[n % 10]
    IN IF n < 10 THEN <<last>> ELSE Str(n \div 10) \o <<last>>

IdNumberOfSegment(host) == IntOf(Split(host)[Len(Split(host))]) + 1
\* int(host[-1]) + 1
IdNumber(host) == DigitValue[host[Len(host)]] + 1

\* self.id, lines 62-66
DisplayId(manu, host) ==
    LET ip_parts == Split(host)
    IN IF IsDigit(ip_parts[Len(ip_parts)])
       THEN <<manu, " ">> \o Str(IdNumber(host))
       ELSE <<manu, " ">> \o host

NewProcessor(host, manu, url) ==
    [host |-> host, manu |-> manu, url |-> url, id |-> DisplayId(manu, host),
     data |-> <<>>]

NotProbing == [a |-> NoResponse, b |-> NoResponse]

Init ==
    /\ pc = "init"
    /\ idx = 1
    /\ processors = <<>>
    /\ now = 0
    /\ res = NoResponse
    /\ sampled = <<>>
    /\ probed = NotProbing
    /\ requested = {}
    /\ output = <<>>
    /\ data_a = EmptyMap
    /\ data_b = EmptyMap
    /\ changes = NotCalled

\* One round of the loop over args.hosts: Processor(host), and the except
\* clause of main that ignores the host.
Construct ==
    /\ pc = "init"
    /\ idx <= Len(Hosts)
    /\ \E resA \in ProbeResponses("megapixel"), resB \in ProbeResponses("brompton") :
        LET host == Hosts[idx]
            accept(manu, url) ==
                /\ processors' = Append(processors, NewProcessor(host, manu, url))
                /\ sampled' = Append(sampled, <<>>)
            ignore == UNCHANGED <<processors, sampled>>
        IN /\ probed' = [a |-> resA, b |-> resB]
           /\ IF resA.err
              THEN \* ConnectionError leaves __init__ at line 55
                   /\ res' = resA
                   /\ requested' = requested \cup {MegapixelProbe(host)}
                   /\ ignore
              ELSE IF ~NeedsBrompton(resA)
              THEN /\ res' = resA
                   /\ requested' = requested \cup {MegapixelProbe(host)}
                   /\ accept("Megapixel", MEGAPIXEL_URL(host))
              ELSE /\ res' = resB
                   /\ requested' = requested
                        \cup {MegapixelProbe(host), BromptonProbe(host)}
                   /\ IF resB.err \/ RaisesForStatus(resB.status)
                      THEN ignore
                      ELSE accept("Brompton", BROMPTON_URL(host))
    /\ idx' = idx + 1
    /\ UNCHANGED <<pc, now, output, data_a, data_b, changes>>

\* Lines 185-189: the start marker, then the first cycle.
Start ==
    /\ pc = "init"
    /\ idx > Len(Hosts)
    /\ output' = Append(output, [marker |-> "(Process started)"])
    /\ pc' = IF processors = <<>> THEN "sleep" ELSE "sample"
    /\ idx' = 1
    /\ probed' = NotProbing
    /\ UNCHANGED <<processors, now, res, sampled, requested, data_a, data_b, changes>>

\* proc.sample() of processors[idx].
Sample ==
    /\ pc = "sample"
    /\ now < MaxTime
    /\ now' = now + 1
    /\ requested' = requested \cup {Request(processors[idx].url, FALSE)}
    /\ \E r \in SampleResponses :
        /\ res' = r
        /\ LET data == processors[idx].data
               timestamp == now + 1
               entry == [timestamp |-> timestamp, data |-> r.body]
           IN IF r.err
              THEN /\ pc' = "compare"
                   /\ UNCHANGED <<processors, sampled>>
              ELSE IF StatusOk(r.status)
              THEN IF r.body = NotJson
                   THEN \* res.json() raises ValueError
                        /\ pc' = "crashed"
                        /\ UNCHANGED <<processors, sampled>>
                   ELSE /\ pc' = "compare"
                        /\ processors' =
                             [processors EXCEPT
                                ![idx].data = Truncate(Append(data, entry))]
                        /\ sampled' =
                             [sampled EXCEPT ![idx] = Append(@, entry)]
              ELSE /\ pc' = "compare"
                   /\ processors' = [processors EXCEPT ![idx].data = Truncate(data)]
                   /\ UNCHANGED sampled
    /\ UNCHANGED <<idx, probed, output, data_a, data_b, changes>>

\* The change lines of one compare(): the for loop of lines 99-100.
Line(a, b, key) ==
    [key |-> key, old |-> get_value(a, key).value, new |-> get_value(b, key).value]
Lines(a, b, keys) ==
    [proc |-> processors[idx].id,
     lines |-> [l \in {Line(a, b, key) : key \in BagToSet(keys)} |->
                  CopiesIn(l.key, keys)]]

\* proc.compare() of processors[idx], then the next processor or the sleep.
Compare ==
    /\ pc = "compare"
    /\ LET samples == LastN(processors[idx].data, 2)
           goOn == /\ pc' = IF idx < Len(processors) THEN "sample" ELSE "sleep"
                   /\ idx' = IF idx < Len(processors) THEN idx + 1 ELSE idx
       IN IF TooFew(samples)
          THEN goOn /\ UNCHANGED <<output, data_a, data_b, changes>>
          ELSE IF Len(samples) < 2
          THEN \* samples[0], samples[1]: IndexError
               /\ pc' = "crashed"
               /\ UNCHANGED <<idx, output, data_a, data_b, changes>>
          ELSE
            LET a == samples[1].data
                b == samples[2].data
                result == dict_compare(a, b, <<>>)
                keys == result.changes
                bad == {key \in BagToSet(keys) :
                          get_value(a, key).raised \/ get_value(b, key).raised}
                good == [key \in BagToSet(keys) \ bad |-> keys[key]]
            IN /\ data_a' = a
               /\ data_b' = b
               /\ changes' = Called(result)
               /\ IF result.raised
                  THEN pc' = "crashed" /\ UNCHANGED <<idx, output>>
                  ELSE IF bad # {}
                  THEN \* get_value raises TypeError at the first key of `bad`
                       \* the loop comes to; the lines before it are logged
                       /\ pc' = "crashed"
                       /\ \E done \in SubBag(good) :
                            output' = IF done = EmptyBag THEN output
                                      ELSE Append(output, Lines(a, b, done))
                       /\ UNCHANGED idx
                  ELSE /\ goOn
                       /\ output' = IF keys = EmptyBag THEN output
                                    ELSE Append(output, Lines(a, b, keys))
    /\ UNCHANGED <<processors, now, res, sampled, probed, requested>>

\* time.sleep(args.interval), then the next cycle.
Sleep ==
    /\ pc = "sleep"
    /\ pc' = IF processors = <<>> THEN "sleep" ELSE "sample"
    /\ idx' = 1
    /\ UNCHANGED <<processors, now, res, sampled, probed, requested, output,
                   data_a, data_b, changes>>

\* KeyboardInterrupt: caught inside the try of the loop, not outside it.
Interrupt ==
    /\ pc \in {"init", "sample", "compare", "sleep"}
    /\ IF pc \in {"sample", "compare"}
       THEN /\ output' = Append(output, [marker |-> "(Process exiting)"])
            /\ pc' = "exited"
       ELSE /\ pc' = "killed"
            /\ UNCHANGED output
    /\ UNCHANGED <<idx, processors, now, res, sampled, probed, requested,
                   data_a, data_b, changes>>

Next == Construct \/ Start \/ Sample \/ Compare \/ Sleep \/ Interrupt

Spec == Init /\ [][Next]_vars

\* ------------------------------------------- dict_compare on its own
InitDiff ==
    /\ data_a \in Snapshots
    /\ data_b \in Snapshots
    /\ changes = NotCalled
    /\ pc = "dict_compare"
    /\ idx = 1
    /\ processors = <<>>
    /\ now = 0
    /\ res = NoResponse
    /\ sampled = <<>>
    /\ probed = NotProbing
    /\ requested = {}
    /\ output = <<>>

DictCompare ==
    /\ ~changes.called
    /\ changes' = Called(dict_compare(data_a, data_b, <<>>))
    /\ UNCHANGED <<pc, idx, processors, now, res, sampled, probed, requested,
                   output, data_a, data_b>>

NextDiff == DictCompare

SpecDiff == InitDiff /\ [][NextDiff]_vars

\* ------------------------------------------- properties of dict_compare
RECURSIVE KeyPaths(_)
\* The non-empty key sequences that lead from the root of v to a value.
KeyPaths(v) ==
    IF ~IsMap(v) THEN {}
    ELSE UNION {{<<k>>} \cup {<<k>> \o p : p \in KeyPaths(v.map[k])} :
                k \in DOMAIN v.map}

RECURSIVE At(_, _)
\* The value that the key sequence p leads to in v.
At(v, p) == IF p = <<>> THEN v ELSE At(v.map[Head(p)], Tail(p))

Front(p) == SubSeq(p, 1, Len(p) - 1)
InBoth == KeyPaths(data_a) \cap KeyPaths(data_b)
LeafIn(v, p) == p \in KeyPaths(v) /\ ~IsMap(At(v, p))
Reported(p) == BagIn(Join(p), changes.changes)
\* One of the eight patterns of VETO matches the dotted path of p.
Vetoed(p) == \E r \in 1..8 : VetoMatch(r, Join(p))
\* The key sequences whose last key is in the dict of x and not in the
\* corresponding dict of y, every key before it leading to a dict in both.
OnlyIn(x, y) ==
    {p \in KeyPaths(x) \ KeyPaths(y) :
        /\ IsMap(At(x, Front(p)))
        /\ Front(p) = <<>> \/ Front(p) \in KeyPaths(y)
        /\ IsMap(At(y, Front(p)))}

\* C1: structurally identical snapshots give an empty change list, and
\* dict_compare does not raise.
C1_IdenticalGivesEmpty ==
    (changes.called /\ data_a = data_b) =>
        (~changes.raised /\ changes.changes = EmptyBag)

C3_RemovalAlwaysReported ==
    changes.called => \A p \in OnlyIn(data_a, data_b) : Reported(p)

\* C4: every added key is in the result, vetoed or not.
C4_AdditionAlwaysReported ==
    changes.called => \A p \in OnlyIn(data_b, data_a) : Reported(p)

\* C5: a list present in both snapshots at a path no veto rule matches is
\* reported exactly when the two lists differ as sets.
C5_ListReportedIffSetsDiffer ==
    changes.called =>
        \A p \in InBoth :
            (IsList(At(data_a, p)) /\ IsList(At(data_b, p)) /\ ~Vetoed(p))
                => (Reported(p) <=>
                        Range(At(data_a, p).list) # Range(At(data_b, p).list))

\* ------------------------------------------- properties of the poll loop
Is2xx(r) == ~r.err /\ r.status \in 200..299
\* The last Min(n, 3) elements of s.
LastThree(s) == [i \in 1..Min(Len(s), 3) |-> s[Len(s) - Min(Len(s), 3) + i]]

\* C6: the history of every Processor holds at most 3 entries.
C6_HistoryAtMostThree ==
    \A i \in 1..Len(processors) : Len(processors[i].data) <= 3

\* C6 witness: a fourth snapshot was delivered and three are kept.
C6_Witness ==
    \E i \in 1..Len(processors) :
        Len(sampled[i]) > 3 /\ Len(processors[i].data) = 3

\* C7: the history is the last min(n, 3) of the n snapshots delivered so
\* far, in their order of arrival, newest last.
C7_HistoryIsLastThreeDelivered ==
    \A i \in 1..Len(processors) :
        processors[i].data = LastThree(sampled[i])

\* C7 witness: after five deliveries the third, fourth and fifth remain.
C7_Witness ==
    \E i \in 1..Len(processors) :
        /\ Len(sampled[i]) = 5
        /\ processors[i].data = <<sampled[i][3], sampled[i][4], sampled[i][5]>>

\* C8: a sample() that meets a ConnectionError or a non-2xx status leaves
\* the history as it was and returns to the loop.
C8_FailedSampleKeepsHistory ==
    [][(pc = "sample" /\ now' = now + 1 /\ ~Is2xx(res'))
          => (processors' = processors /\ pc' = "compare")]_vars

\* C8 witness: a sample() has just failed on a processor that has history.
C8_Witness ==
    /\ pc = "compare"
    /\ res.op = "sample"
    /\ ~Is2xx(res)
    /\ processors[idx].data # <<>>

\* C9: with fewer than 2 samples compare() emits nothing, raises nothing
\* and leaves the history alone.
C9_CompareNoOpBelowTwo ==
    [][(pc = "compare" /\ pc' # "exited" /\ Len(processors[idx].data) < 2)
          => /\ output' = output
             /\ processors' = processors
             /\ changes' = changes
             /\ pc' \in {"sample", "sleep"}]_vars

\* C9 witness: the cycle of a single processor ended with one sample in the
\* history, and nothing but the start marker in the change log.
C9_Witness ==
    /\ pc = "sleep"
    /\ Len(processors) = 1
    /\ Len(processors[1].data) = 1
    /\ Len(output) = 1
    /\ ~changes.called

\* C10: no outcome of sample() or compare() ends the process, whatever JSON
\* the polls deliver; only a 2xx response that is not JSON is left aside.
C10_PollNeverEndsProcess ==
    pc = "crashed" => (res.op = "sample" /\ Is2xx(res) /\ res.body = NotJson)

\* ------------------------- dict_compare on snapshots with a dotted key
\* JSON objects may have keys that contain the separator: "sys.sys".
DottedKeys == {<<"sys">>, <<"sys", ".", "sys">>}
DottedValues ==
    {Scalar(n) : n \in Scalars}
    \cup {EmptyMap}
    \cup {Map(<<"sys">> :> Scalar(n)) : n \in Scalars}
DottedSnapshots ==
    {Map(f) : f \in UNION {[ks -> DottedValues] : ks \in SUBSET DottedKeys}}

InitDotted ==
    /\ data_a \in DottedSnapshots
    /\ data_b \in DottedSnapshots
    /\ changes = NotCalled
    /\ pc = "dict_compare"
    /\ idx = 1
    /\ processors = <<>>
    /\ now = 0
    /\ res = NoResponse
    /\ sampled = <<>>
    /\ probed = NotProbing
    /\ requested = {}
    /\ output = <<>>

SpecDotted == InitDotted /\ [][NextDiff]_vars

\* ------------------------------------------- the display id on its own
HostChars == {"0", "1", "9", ".", "a"}
HostNames == UNION {[1..n -> HostChars] : n \in 0..MaxHostLen}

InitId ==
    /\ pc = "id"
    /\ idx = 1
    /\ processors = <<>>
    /\ now = 0
    /\ res = NoResponse
    /\ sampled = <<>>
    /\ probed = NotProbing
    /\ requested = {}
    /\ output = <<>>
    /\ data_a = EmptyMap
    /\ data_b = EmptyMap
    /\ changes = NotCalled

\* Lines 62-67 for one host, after either probe has succeeded.
MakeId ==
    /\ pc = "id"
    /\ processors = <<>>
    /\ \E host \in HostNames :
         \/ processors' = <<NewProcessor(host, "Megapixel", MEGAPIXEL_URL(host))>>
         \/ processors' = <<NewProcessor(host, "Brompton", BROMPTON_URL(host))>>
    /\ UNCHANGED <<pc, idx, now, res, sampled, probed, requested, output,
                   data_a, data_b, changes>>

NextId == MakeId

SpecId == InitId /\ [][NextId]_vars

\* ------------------------------------------------ claims on construction
\* A probe answer that is a failure: a transport error or a status outside 2xx.
Failed(r) == r.err \/ r.status \notin 200..299
\* The URLs of the Brompton API of a host: the base and the probe.
BromptonUrls(host) ==
    {<<"http://">> \o host \o <<"/api/">>,
     <<"http://">> \o host \o <<"/api/", "system/processor-type">>}
AskedBrompton(host, reqs) == \E r \in reqs : r.url \in BromptonUrls(host)
Last(s) == s[Len(s)]
Constructed(host) == \E i \in 1..Len(processors) : processors[i].host = host

\* C11: when the Megapixel probe of a host answers 2xx, the processor is
\* constructed as Megapixel with the Megapixel base URL, and no request to
\* the Brompton API of that host is issued then or at any later time.
C11_MegapixelCommits ==
    [][/\ (pc = "init" /\ idx' = idx + 1 /\ Is2xx(probed'.a))
          => /\ Len(processors') = Len(processors) + 1
             /\ Last(processors').host = Hosts[idx]
             /\ Last(processors').manu = "Megapixel"
             /\ Last(processors').url =
                    <<"http://">> \o Hosts[idx] \o <<"/api/v1/data">>
       /\ \A i \in 1..Len(processors') :
            processors'[i].manu = "Megapixel"
                => ~AskedBrompton(processors'[i].host, requested')]_vars

C11_Witness ==
    \E i \in 1..Len(processors) :
        /\ processors[i].manu = "Megapixel"
        /\ Len(sampled[i]) >= 2
        /\ pc = "sleep"

\* C12: whenever the Megapixel probe of a host fails, by a status outside
\* 2xx or by a transport error, and the host answers the Brompton probe 2xx,
\* the Brompton probe is attempted and the processor is constructed as
\* Brompton with the Brompton base URL.
C12_FallsBackToBrompton ==
    [][(pc = "init" /\ idx' = idx + 1 /\ Failed(probed'.a) /\ Is2xx(probed'.b))
          => /\ AskedBrompton(Hosts[idx], requested')
             /\ Len(processors') = Len(processors) + 1
             /\ Last(processors').host = Hosts[idx]
             /\ Last(processors').manu = "Brompton"
             /\ Last(processors').url = <<"http://">> \o Hosts[idx] \o <<"/api/">>]_vars

\* C13: when both probes of a host fail, by a status outside 2xx or by a
\* transport error, no processor is constructed for the host, the host is
\* never polled afterwards, and the loop still starts.
C13_BothFailExcludesHost ==
    [][/\ (pc = "init" /\ idx' = idx + 1 /\ Failed(probed'.a) /\ Failed(probed'.b))
          => processors' = processors
       /\ \A i \in 1..Len(Hosts) :
            (idx' > i /\ ~Constructed(Hosts[i])')
                => \A r \in requested' :
                      (r.url = <<"http://">> \o Hosts[i] \o <<"/api/v1/data">>)
                          => r.params
       /\ (pc = "init" /\ idx > Len(Hosts)) => pc' \in {"sample", "sleep", "killed"}]_vars

\* -------------------------------------------------- claims on the interrupt
Markers(text) == {i \in 1..Len(output) : output[i] = [marker |-> text]}
LoopStarted == Markers("(Process started)") # {}

\* C14: whenever an interrupt ends the process after the loop has started,
\* during a sample, a compare or the sleep between two cycles, exactly one
\* '(Process exiting)' marker has been written, as the last line of the log.
C14_InterruptWritesOneMarker ==
    (pc \in {"exited", "killed"} /\ LoopStarted)
        => Markers("(Process exiting)") = {Len(output)}

\* ------------------------------------------------ claims on the display id
\* The part of a host address after its last '.', the whole of it without one.
FinalSegment(host) ==
    LET dots == {i \in 1..Len(host) : host[i] = "."}
        from == IF dots = {} THEN 1
                ELSE (CHOOSE i \in dots : \A j \in dots : j <= i) + 1
    IN SubSeq(host, from, Len(host))
AllDigits(s) ==
    s # <<>> /\ \A i \in 1..Len(s) :
                    s[i] \in {"0", "1", "2", "3", "4", "5", "6", "7", "8", "9"}
\* The decimal text of 1..10.
Decimal ==
    <<<<"1">>, <<"2">>, <<"3">>, <<"4">>, <<"5">>, <<"6">>, <<"7">>, <<"8">>,
      <<"9">>, <<"1", "0">>>>

\* C15: for every host address whose final dot-delimited segment is all
\* digits, the display id is the vendor, a space and (the value of the last
\* character of the address) + 1, so that '19' gives 10 and '0' gives 1; for
\* every other address it is the vendor, a space and the address.
C15_DisplayId ==
    \A i \in 1..Len(processors) :
        LET proc == processors[i]
            host == proc.host
        IN proc.id =
             IF AllDigits(FinalSegment(host))
             THEN <<proc.manu, " ">> \o Decimal[DigitValue[host[Len(host)]] + 1]
             ELSE <<proc.manu, " ">> \o host

C15_Witness ==
    /\ pc = "id"
    /\ processors # <<>>
    /\ processors[1].host = <<"1", "9">>
    /\ processors[1].id = <<processors[1].manu, " ", "1", "0">>

\* -------------------------------------------- claims on the volatile names
VolatileNames ==
    {"reboots", "discovered", "since", "uptime", "runtime", "freq", "CPUTemp",
     "outputFreq", "current-date-time"}
\* The leaves of both snapshots with different values whose last key is a
\* volatile name.
ChangedVolatile ==
    {p \in InBoth :
        /\ LeafIn(data_a, p) /\ LeafIn(data_b, p)
        /\ At(data_a, p) # At(data_b, p)
        /\ \E name \in VolatileNames : Last(p) = <<name>>}

\* C16: a changed scalar or list value whose last path segment is one of the
\* volatile names is never in the result of dict_compare, at any nesting
\* depth, the top level included.
C16_VolatileSuppressedAtAnyDepth ==
    changes.called => \A p \in ChangedVolatile : ~Reported(p)

\* ------------------------------------------------ claims on repeated lines
\* C17: in a cycle where sample() appended no snapshot, because of a
\* transport error or of a status outside 2xx, the compare() of that cycle
\* writes no change line.
C17_NoLineAfterFailedSample ==
    [][(pc = "compare" /\ pc' # "exited" /\ ~Is2xx(res)) => output' = output]_vars

\* ------------------------------------------------- claims on dotted keys
\* C18: the result of dict_compare holds no path twice, for every pair of
\* snapshots, also when keys contain the separator '.'.
C18_ResultDuplicateFree ==
    changes.called =>
        \A key \in BagToSet(changes.changes) : CopiesIn(key, changes.changes) = 1

\* C19: for every path dict_compare reports, get_value on the older and on
\* the newer snapshot returns, with the value or with None: it never raises.
C19_GetValueNeverRaises ==
    (changes.called /\ ~changes.raised) =>
        \A key \in BagToSet(changes.changes) :
            ~get_value(data_a, key).raised /\ ~get_value(data_b, key).raised
====
